---- MODULE Spec2Model ----
(***************************************************************************)
(* Organizations and membership roles (handlers/organizations.rs).         *)
(*                                                                         *)
(* The relational store is the only shared state.  Every request handler   *)
(* is a process that issues its SQL statements one at a time; a statement  *)
(* executed on the pool commits on its own, the statements of              *)
(* create_org_internal run inside one transaction and become visible at    *)
(* tx.commit().                                                            *)
(***************************************************************************)
EXTENDS Integers, FiniteSets, Sequences, TLC

\* ------------------------------------------------------------------ bounds
MaxRequests == 2
MaxOrgId == 2
MaxClock == 2

Procs == {1, 2}
Users == {1, 2}
Names == {"acme"}
DisplayNames == {"d1"}
Null == "NULL"
NoUser == 0
NoId == 0

\* ------------------------------------------------------------ role model
Owner == "Owner"
Admin == "Admin"
Member == "Member"
Roles == {Owner, Admin, Member}
NoRole == "None"

\* OrganizationRole's Display: the text persisted in organization_members.role
RoleToText(r) ==
    CASE r = Owner -> "owner"
      [] r = Admin -> "admin"
      [] r = Member -> "member"

\* the match of get_user_role_in_org: unknown text is no role
RoleFromText(t) ==
    CASE t = "owner" -> Owner
      [] t = "admin" -> Admin
      [] t = "member" -> Member
      [] OTHER -> NoRole

Rank(r) ==
    CASE r = Owner -> 3
      [] r = Admin -> 2
      [] r = Member -> 1
      [] OTHER -> 0

can_manage_organization(r) == r \in {Owner, Admin}

can_delete_organization(r) == r = Owner

can_manage_members(r) == r \in {Owner, Admin}

\* the guard as a comparison of ranks alone
can_change_role_to_ByRank(acting, new) ==
    Rank(new) <= Rank(acting) /\ (new = Owner => acting = Owner)

can_change_role_to(acting, new) ==
    CASE acting = Owner -> TRUE
      [] acting = Admin -> new \in {Member, Admin}
      [] OTHER -> FALSE

can_remove_member(acting, target) ==
    CASE acting = Owner -> TRUE
      [] acting = Admin -> target = Member
      [] OTHER -> FALSE

\* ------------------------------------------------------------------ state
VARIABLES
    organizations,         \* committed rows of table organizations
    organization_members,  \* committed rows of table organization_members
    next_org_id,           \* serial of organizations.id
    req,                   \* per process: the request it is handling
    started,               \* number of requests begun so far
    now                    \* the database clock, CURRENT_TIMESTAMP

vars ==
    <<organizations, organization_members, next_org_id, req, started, now>>

store == <<organizations, organization_members>>

Idle ==
    [op |-> "idle", pc |-> "idle", name |-> "", actor |-> NoUser,
     target |-> NoUser, role |-> NoRole, display_name |-> Null,
     description |-> Null, website_url |-> Null, avatar_url |-> Null,
     actor_role |-> NoRole, org_id |-> NoId, tx_orgs |-> {},
     tx_members |-> {}, listed |-> <<>>, result |-> "None", status |-> 0]

\* ------------------------------------------------------- store, read side
OrgsNamed(name) == {o \in organizations : o.name = name}

MemberRows(org_id, user) ==
    {m \in organization_members :
        m.organization_id = org_id /\ m.user_id = user}

MembersIn(rows, org_id) == {m \in rows : m.organization_id = org_id}

MembersOf(org_id) == MembersIn(organization_members, org_id)

\* SELECT om.role FROM organization_members om JOIN organizations o ...
\* WHERE o.name = $1 AND om.user_id = $2, fetch_optional, then the match
RoleRows_AnyOrg(name, user) == {m \in organization_members : m.user_id = user}

RoleRows(name, user) ==
    {m \in organization_members :
        /\ m.user_id = user
        /\ \E o \in OrgsNamed(name) : o.id = m.organization_id}

get_user_role_in_org(name, user) ==
    IF RoleRows(name, user) = {} THEN {NoRole}
    ELSE {RoleFromText(m.role) : m \in RoleRows(name, user)}

\* get_org_internal: fetch_optional of the row named name
get_org_internal(name) == OrgsNamed(name)

\* ------------------------------------------- store, constraints (schema)
\* a schema without the constraint on organizations.name
NameFree_Unchecked(name) == TRUE

\* organizations.name is UNIQUE
NameFree(name) == OrgsNamed(name) = {}

\* a schema without the constraint on (organization_id, user_id)
PairFree_Unchecked(org_id, user) == TRUE

\* organization_members (organization_id, user_id) is UNIQUE
PairFree(org_id, user) == MemberRows(org_id, user) = {}

\* a schema without the foreign key on organization_id
OrgIdExists_NoForeignKey(org_id) == TRUE

\* organization_members.organization_id REFERENCES organizations(id)
OrgIdExists(org_id) == \E o \in organizations : o.id = org_id

\* organization_members.invited_at has no default: an INSERT that does not
\* name the column leaves it NULL
InvitedAtDefault == Null

\* ... ON DELETE CASCADE
CascadeDelete(gone) ==
    {m \in organization_members :
        \A o \in gone : o.id # m.organization_id}

\* ------------------------------------------------------------- requests
\* What a handler returns: "Ok", or the error it bails with.
\*   "Conflict"            bail!("... already exists"), bail!("User is already
\*                         a member of this organization")
\*   "Forbidden"           the bail! of a failed role check
\*   "NotFound"            fetch_one found no row (.context("... not found")),
\*                         rows_affected() == 0
\*   "ConstraintViolation" the sqlx error of an INSERT the schema rejects
\*   "StoreFailure"        any other sqlx error propagated by ?
Free(p) == req[p].pc \in {"idle", "done"} /\ started < MaxRequests

\* the match of each handler on the result of its *_internal function:
\* Ok is CREATED, NO_CONTENT or OK; every Err(e) is BAD_REQUEST, except
\* in list_user_organizations, where it is INTERNAL_SERVER_ERROR
StatusOf(op, res) ==
    IF res = "Ok"
    THEN CASE op \in {"create", "add"} -> 201
           [] op \in {"delete", "remove"} -> 204
           [] OTHER -> 200
    ELSE IF op = "list_orgs" THEN 500 ELSE 400

Finish(p, res) ==
    [req[p] EXCEPT !.pc = "done", !.result = res,
                   !.status = StatusOf(req[p].op, res),
                   !.actor_role = NoRole, !.org_id = NoId,
                   !.tx_orgs = {}, !.tx_members = {}]

\* ---- create_org_internal
StartCreate(p) ==
    /\ Free(p)
    /\ \E n \in Names, u \in Users, d \in DisplayNames \cup {Null} :
          req' = [req EXCEPT ![p] = [Idle EXCEPT !.op = "create",
                     !.pc = "create_check", !.name = n, !.actor = u,
                     !.display_name = d]]
    /\ started' = started + 1
    /\ UNCHANGED <<store, next_org_id, now>>

\* the existence check without its bail!
CreateCheck_NoBail(p) ==
    /\ req[p].pc = "create_check"
    /\ req' = [req EXCEPT ![p] = [req[p] EXCEPT !.pc = "create_insert_org"]]
    /\ UNCHANGED <<store, next_org_id, started, now>>

\* pool.begin(); SELECT id FROM organizations WHERE name = $1; bail if some
CreateCheck(p) ==
    /\ req[p].pc = "create_check"
    /\ req' = [req EXCEPT ![p] =
                  IF OrgsNamed(req[p].name) # {}
                  THEN Finish(p, "Conflict")
                  ELSE [req[p] EXCEPT !.pc = "create_insert_org"]]
    /\ UNCHANGED <<store, next_org_id, started, now>>

\* another transaction holds an uncommitted row of that name: the INSERT waits
NameLocked(p, name) ==
    \E q \in Procs \ {p} : \E o \in req[q].tx_orgs : o.name = name

\* the row INSERT INTO organizations (name, display_name, description,
\* website_url) VALUES ($1, $2, $3, $4) RETURNING ... writes: the id from the
\* serial, avatar_url NULL, created_at and updated_at the current timestamp
NewOrgRow(p, id) ==
    [id |-> id, name |-> req[p].name,
     display_name |-> req[p].display_name,
     description |-> req[p].description,
     website_url |-> req[p].website_url, avatar_url |-> Null,
     created_at |-> now, updated_at |-> now]

\* the INSERT executed on the pool instead of the transaction: the row is
\* committed at once
CreateInsertOrg_OnPool(p) ==
    /\ req[p].pc = "create_insert_org"
    /\ NameFree(req[p].name)
    /\ next_org_id <= MaxOrgId
    /\ organizations' = organizations \cup {NewOrgRow(p, next_org_id)}
    /\ req' = [req EXCEPT ![p] =
                 [req[p] EXCEPT !.pc = "create_insert_owner",
                                !.org_id = next_org_id]]
    /\ next_org_id' = next_org_id + 1
    /\ UNCHANGED <<organization_members, started, now>>

\* INSERT INTO organizations ... RETURNING, inside the transaction
CreateInsertOrg(p) ==
    /\ req[p].pc = "create_insert_org"
    /\ ~NameLocked(p, req[p].name)
    /\ IF NameFree(req[p].name)
       THEN /\ next_org_id <= MaxOrgId
            /\ req' = [req EXCEPT ![p] =
                         [req[p] EXCEPT !.pc = "create_insert_owner",
                             !.org_id = next_org_id,
                             !.tx_orgs = {NewOrgRow(p, next_org_id)}]]
            /\ next_org_id' = next_org_id + 1
       ELSE /\ req' = [req EXCEPT ![p] = Finish(p, "ConstraintViolation")]
            /\ UNCHANGED next_org_id
    /\ UNCHANGED <<store, started, now>>

\* the founder inserted with the wrong role text
CreateInsertOwner_AsAdmin(p) ==
    /\ req[p].pc = "create_insert_owner"
    /\ req' = [req EXCEPT ![p] =
                 [req[p] EXCEPT !.pc = "create_commit",
                     !.tx_members = {[organization_id |-> req[p].org_id,
                                      user_id |-> req[p].actor,
                                      role |-> "admin",
                                      invited_by |-> NoUser,
                                      invited_at |-> InvitedAtDefault,
                                      joined_at |-> now]}]]
    /\ UNCHANGED <<store, next_org_id, started, now>>

\* INSERT INTO organization_members (organization_id, user_id, role)
\* VALUES (org.id, creator_id, 'owner'), inside the transaction; invited_by
\* and invited_at are not named
CreateInsertOwner(p) ==
    /\ req[p].pc = "create_insert_owner"
    /\ req' = [req EXCEPT ![p] =
                 [req[p] EXCEPT !.pc = "create_commit",
                     !.tx_members = {[organization_id |-> req[p].org_id,
                                      user_id |-> req[p].actor,
                                      role |-> "owner",
                                      invited_by |-> NoUser,
                                      invited_at |-> InvitedAtDefault,
                                      joined_at |-> now]}]]
    /\ UNCHANGED <<store, next_org_id, started, now>>

\* tx.commit(): both rows become visible together
CreateCommit(p) ==
    /\ req[p].pc = "create_commit"
    /\ organizations' = organizations \cup req[p].tx_orgs
    /\ organization_members' = organization_members \cup req[p].tx_members
    /\ req' = [req EXCEPT ![p] = Finish(p, "Ok")]
    /\ UNCHANGED <<next_org_id, started, now>>

\* ---- update_org_internal
StartUpdate(p) ==
    /\ Free(p)
    /\ \E n \in Names, u \in Users, d \in DisplayNames \cup {Null} :
          req' = [req EXCEPT ![p] = [Idle EXCEPT !.op = "update",
                     !.pc = "update_check", !.name = n, !.actor = u,
                     !.display_name = d]]
    /\ started' = started + 1
    /\ UNCHANGED <<store, next_org_id, now>>

\* the role read but not checked
UpdateCheck_NoGuard(p) ==
    /\ req[p].pc = "update_check"
    /\ req' = [req EXCEPT ![p] = [req[p] EXCEPT !.pc = "update_exec"]]
    /\ UNCHANGED <<store, next_org_id, started, now>>

\* get_user_role_in_org, then can_manage_organization or bail
UpdateCheck(p) ==
    /\ req[p].pc = "update_check"
    /\ \E r \in get_user_role_in_org(req[p].name, req[p].actor) :
          req' = [req EXCEPT ![p] =
                    IF r # NoRole /\ can_manage_organization(r)
                    THEN [req[p] EXCEPT !.pc = "update_exec"]
                    ELSE Finish(p, "Forbidden")]
    /\ UNCHANGED <<store, next_org_id, started, now>>

\* update_org_internal with a patch of all four fields, each present or not
PatchValues == {Null, "v2"}

StartUpdatePatch(p) ==
    /\ Free(p)
    /\ \E n \in Names, u \in Users :
          \E d \in PatchValues, e \in PatchValues, w \in PatchValues,
             a \in PatchValues :
             req' = [req EXCEPT ![p] = [Idle EXCEPT !.op = "update",
                        !.pc = "update_check", !.name = n, !.actor = u,
                        !.display_name = d, !.description = e,
                        !.website_url = w, !.avatar_url = a]]
    /\ started' = started + 1
    /\ UNCHANGED <<store, next_org_id, now>>

\* SET display_name = $2: the patch replaces the column, present or not
Coalesce_Replace(new, old) == new

\* COALESCE($2, display_name)
Coalesce(new, old) == IF new # Null THEN new ELSE old

\* UPDATE organizations SET ... WHERE name = $1 RETURNING ..., fetch_one
UpdateExec(p) ==
    /\ req[p].pc = "update_exec"
    /\ organizations' =
          {IF o.name = req[p].name
           THEN [o EXCEPT
                   !.display_name = Coalesce(req[p].display_name, @),
                   !.description = Coalesce(req[p].description, @),
                   !.website_url = Coalesce(req[p].website_url, @),
                   !.avatar_url = Coalesce(req[p].avatar_url, @),
                   !.updated_at = now]
           ELSE o : o \in organizations}
    /\ req' = [req EXCEPT ![p] =
                 IF OrgsNamed(req[p].name) = {}
                 THEN Finish(p, "NotFound")
                 ELSE Finish(p, "Ok")]
    /\ UNCHANGED <<organization_members, next_org_id, started, now>>

\* ---- delete_org_internal
StartDelete(p) ==
    /\ Free(p)
    /\ \E n \in Names, u \in Users :
          req' = [req EXCEPT ![p] = [Idle EXCEPT !.op = "delete",
                     !.pc = "delete_check", !.name = n, !.actor = u]]
    /\ started' = started + 1
    /\ UNCHANGED <<store, next_org_id, now>>

\* get_user_role_in_org, then can_delete_organization or bail
\* the role read but not checked
DeleteCheck_NoGuard(p) ==
    /\ req[p].pc = "delete_check"
    /\ req' = [req EXCEPT ![p] = [req[p] EXCEPT !.pc = "delete_exec"]]
    /\ UNCHANGED <<store, next_org_id, started, now>>

DeleteCheck(p) ==
    /\ req[p].pc = "delete_check"
    /\ \E r \in get_user_role_in_org(req[p].name, req[p].actor) :
          req' = [req EXCEPT ![p] =
                    IF r # NoRole /\ can_delete_organization(r)
                    THEN [req[p] EXCEPT !.pc = "delete_exec"]
                    ELSE Finish(p, "Forbidden")]
    /\ UNCHANGED <<store, next_org_id, started, now>>

\* DELETE FROM organizations WHERE name = $1; the members go by cascade
DeleteExec(p) ==
    /\ req[p].pc = "delete_exec"
    /\ organizations' = organizations \ OrgsNamed(req[p].name)
    /\ organization_members' = CascadeDelete(OrgsNamed(req[p].name))
    /\ req' = [req EXCEPT ![p] =
                 IF OrgsNamed(req[p].name) = {}
                 THEN Finish(p, "NotFound")
                 ELSE Finish(p, "Ok")]
    /\ UNCHANGED <<next_org_id, started, now>>

\* ---- add_member_internal
StartAdd(p) ==
    /\ Free(p)
    /\ \E n \in Names, u \in Users, t \in Users \cup {NoUser}, r \in Roles :
          req' = [req EXCEPT ![p] = [Idle EXCEPT !.op = "add",
                     !.pc = "add_check", !.name = n, !.actor = u,
                     !.target = t, !.role = r]]
    /\ started' = started + 1
    /\ UNCHANGED <<store, next_org_id, now>>

\* the role read but not checked
AddCheck_NoGuard(p) ==
    /\ req[p].pc = "add_check"
    /\ \E r \in get_user_role_in_org(req[p].name, req[p].actor) :
          req' = [req EXCEPT ![p] =
                    [req[p] EXCEPT !.pc = "add_org", !.actor_role = r]]
    /\ UNCHANGED <<store, next_org_id, started, now>>

\* get_user_role_in_org, then can_manage_members or bail
AddCheck(p) ==
    /\ req[p].pc = "add_check"
    /\ \E r \in get_user_role_in_org(req[p].name, req[p].actor) :
          req' = [req EXCEPT ![p] =
                    IF r # NoRole /\ can_manage_members(r)
                    THEN [req[p] EXCEPT !.pc = "add_org", !.actor_role = r]
                    ELSE Finish(p, "Forbidden")]
    /\ UNCHANGED <<store, next_org_id, started, now>>

\* SELECT id FROM organizations WHERE name = $1, fetch_one
AddOrg(p) ==
    /\ req[p].pc = "add_org"
    /\ IF OrgsNamed(req[p].name) = {}
       THEN req' = [req EXCEPT ![p] = Finish(p, "NotFound")]
       ELSE \E o \in OrgsNamed(req[p].name) :
               req' = [req EXCEPT ![p] =
                         [req[p] EXCEPT !.pc = "add_user", !.org_id = o.id]]
    /\ UNCHANGED <<store, next_org_id, started, now>>

\* SELECT id, username, email FROM users WHERE email = $1, fetch_one
AddUser(p) ==
    /\ req[p].pc = "add_user"
    /\ req' = [req EXCEPT ![p] =
                 IF req[p].target \in Users
                 THEN [req[p] EXCEPT !.pc = "add_existing"]
                 ELSE Finish(p, "NotFound")]
    /\ UNCHANGED <<store, next_org_id, started, now>>

\* SELECT id FROM organization_members WHERE organization_id = $1 AND
\* user_id = $2; bail if some
AddExisting(p) ==
    /\ req[p].pc = "add_existing"
    /\ req' = [req EXCEPT ![p] =
                 IF MemberRows(req[p].org_id, req[p].target) # {}
                 THEN Finish(p, "Conflict")
                 ELSE [req[p] EXCEPT !.pc = "add_insert"]]
    /\ UNCHANGED <<store, next_org_id, started, now>>

\* the row INSERT INTO organization_members (organization_id, user_id,
\* role, invited_by) VALUES ($1, $2, $3, $4) writes; joined_at is the
\* column's default, the current timestamp
AddRow(p) ==
    [organization_id |-> req[p].org_id,
     user_id |-> req[p].target, role |-> RoleToText(req[p].role),
     invited_by |-> req[p].actor, invited_at |-> InvitedAtDefault,
     joined_at |-> now]

\* the schema accepts the row
InsertMemberOk(org_id, user) == PairFree(org_id, user) /\ OrgIdExists(org_id)

AddInsert(p) ==
    /\ req[p].pc = "add_insert"
    /\ IF InsertMemberOk(req[p].org_id, req[p].target)
       THEN /\ organization_members' = organization_members \cup {AddRow(p)}
            /\ req' = [req EXCEPT ![p] = Finish(p, "Ok")]
       ELSE /\ req' = [req EXCEPT ![p] = Finish(p, "ConstraintViolation")]
            /\ UNCHANGED organization_members
    /\ UNCHANGED <<organizations, next_org_id, started, now>>

\* ---- update_member_role_internal
StartChange(p) ==
    /\ Free(p)
    /\ \E n \in Names, u \in Users, t \in Users, r \in Roles :
          req' = [req EXCEPT ![p] = [Idle EXCEPT !.op = "change",
                     !.pc = "change_role", !.name = n, !.actor = u,
                     !.target = t, !.role = r]]
    /\ started' = started + 1
    /\ UNCHANGED <<store, next_org_id, now>>

\* let updater_role = get_user_role_in_org(pool, org_name, updater_id)
ChangeRole(p) ==
    /\ req[p].pc = "change_role"
    /\ \E r \in get_user_role_in_org(req[p].name, req[p].actor) :
          req' = [req EXCEPT ![p] =
                    [req[p] EXCEPT !.pc = "change_target", !.actor_role = r]]
    /\ UNCHANGED <<store, next_org_id, started, now>>

\* the guard without its second check, can_remove_member on the target
ChangeAllowed_NoTargetGuard(updater_role, target_role, new_role) ==
    /\ updater_role # NoRole
    /\ target_role # NoRole
    /\ can_change_role_to(updater_role, new_role)

\* the guard of update_member_role_internal on the two roles read
ChangeAllowed(updater_role, target_role, new_role) ==
    /\ updater_role # NoRole
    /\ target_role # NoRole
    /\ can_change_role_to(updater_role, new_role)
    /\ can_remove_member(updater_role, target_role)

\* let target_current_role = get_user_role_in_org(...); the two checks
ChangeTarget(p) ==
    /\ req[p].pc = "change_target"
    /\ \E t \in get_user_role_in_org(req[p].name, req[p].target) :
          req' = [req EXCEPT ![p] =
                    IF ChangeAllowed(req[p].actor_role, t, req[p].role)
                    THEN [req[p] EXCEPT !.pc = "change_org"]
                    ELSE Finish(p, "Forbidden")]
    /\ UNCHANGED <<store, next_org_id, started, now>>

\* SELECT id FROM organizations WHERE name = $1, fetch_one
ChangeOrg(p) ==
    /\ req[p].pc = "change_org"
    /\ IF OrgsNamed(req[p].name) = {}
       THEN req' = [req EXCEPT ![p] = Finish(p, "NotFound")]
       ELSE \E o \in OrgsNamed(req[p].name) :
               req' = [req EXCEPT ![p] =
                         [req[p] EXCEPT !.pc = "change_update",
                                        !.org_id = o.id]]
    /\ UNCHANGED <<store, next_org_id, started, now>>

\* UPDATE organization_members SET role = $3 WHERE organization_id = $1
\* AND user_id = $2
\* the UPDATE without AND user_id = $3
ChangeUpdate_WholeOrg(p) ==
    /\ req[p].pc = "change_update"
    /\ organization_members' =
          {IF m.organization_id = req[p].org_id
           THEN [m EXCEPT !.role = RoleToText(req[p].role)]
           ELSE m : m \in organization_members}
    /\ req' = [req EXCEPT ![p] = [req[p] EXCEPT !.pc = "change_fetch"]]
    /\ UNCHANGED <<organizations, next_org_id, started, now>>

ChangeUpdate(p) ==
    /\ req[p].pc = "change_update"
    /\ organization_members' =
          {IF m \in MemberRows(req[p].org_id, req[p].target)
           THEN [m EXCEPT !.role = RoleToText(req[p].role)]
           ELSE m : m \in organization_members}
    /\ req' = [req EXCEPT ![p] = [req[p] EXCEPT !.pc = "change_fetch"]]
    /\ UNCHANGED <<organizations, next_org_id, started, now>>

\* SELECT ... WHERE om.organization_id = $1 AND om.user_id = $2, fetch_one
ChangeFetch(p) ==
    /\ req[p].pc = "change_fetch"
    /\ req' = [req EXCEPT ![p] =
                 IF MemberRows(req[p].org_id, req[p].target) = {}
                 THEN Finish(p, "NotFound")
                 ELSE Finish(p, "Ok")]
    /\ UNCHANGED <<store, next_org_id, started, now>>

\* ---- remove_member_internal
StartRemove(p) ==
    /\ Free(p)
    /\ \E n \in Names, u \in Users, t \in Users :
          req' = [req EXCEPT ![p] = [Idle EXCEPT !.op = "remove",
                     !.pc = "remove_role", !.name = n, !.actor = u,
                     !.target = t]]
    /\ started' = started + 1
    /\ UNCHANGED <<store, next_org_id, now>>

\* let remover_role = get_user_role_in_org(pool, org_name, remover_id)
RemoveRole(p) ==
    /\ req[p].pc = "remove_role"
    /\ \E r \in get_user_role_in_org(req[p].name, req[p].actor) :
          req' = [req EXCEPT ![p] =
                    [req[p] EXCEPT !.pc = "remove_target", !.actor_role = r]]
    /\ UNCHANGED <<store, next_org_id, started, now>>

\* the guard without the remover_id != member_user_id exemption
RemoveAllowed_NoSelf(remover_id, member_user_id, remover_role, target_role) ==
    /\ remover_role # NoRole
    /\ target_role # NoRole
    /\ can_remove_member(remover_role, target_role)

\* the guard without can_remove_member: membership of both is enough
RemoveAllowed_AnyMember(remover_id, member_user_id, remover_role, target_role) ==
    \/ remover_id = member_user_id
    \/ /\ remover_role # NoRole
       /\ target_role # NoRole

\* the guard of remove_member_internal on the two roles read
RemoveAllowed(remover_id, member_user_id, remover_role, target_role) ==
    \/ remover_id = member_user_id
    \/ /\ remover_role # NoRole
       /\ target_role # NoRole
       /\ can_remove_member(remover_role, target_role)

\* let target_role = get_user_role_in_org(...); the self-removal test
RemoveTarget(p) ==
    /\ req[p].pc = "remove_target"
    /\ \E t \in get_user_role_in_org(req[p].name, req[p].target) :
          req' = [req EXCEPT ![p] =
                    IF RemoveAllowed(req[p].actor, req[p].target,
                                     req[p].actor_role, t)
                    THEN [req[p] EXCEPT !.pc = "remove_org",
                                        !.actor_role = NoRole]
                    ELSE Finish(p, "Forbidden")]
    /\ UNCHANGED <<store, next_org_id, started, now>>

\* SELECT id FROM organizations WHERE name = $1, fetch_one
RemoveOrg(p) ==
    /\ req[p].pc = "remove_org"
    /\ IF OrgsNamed(req[p].name) = {}
       THEN req' = [req EXCEPT ![p] = Finish(p, "NotFound")]
       ELSE \E o \in OrgsNamed(req[p].name) :
               req' = [req EXCEPT ![p] =
                         [req[p] EXCEPT !.pc = "remove_delete",
                                        !.org_id = o.id]]
    /\ UNCHANGED <<store, next_org_id, started, now>>

\* DELETE FROM organization_members WHERE organization_id = $1 AND
\* user_id = $2; rows_affected() == 0 is "Member not found"
RemoveDelete(p) ==
    /\ req[p].pc = "remove_delete"
    /\ organization_members' =
          organization_members \ MemberRows(req[p].org_id, req[p].target)
    /\ req' = [req EXCEPT ![p] =
                 IF MemberRows(req[p].org_id, req[p].target) = {}
                 THEN Finish(p, "NotFound")
                 ELSE Finish(p, "Ok")]
    /\ UNCHANGED <<organizations, next_org_id, started, now>>

\* ---- get_members_internal(pool, org_name, user_id: Option<i64>)
\* actor NoUser is user_id None: the role check is skipped
StartList(p) ==
    /\ Free(p)
    /\ \E n \in Names, u \in Users \cup {NoUser} :
          req' = [req EXCEPT ![p] = [Idle EXCEPT !.op = "list",
                     !.pc = IF u = NoUser THEN "list_fetch"
                                          ELSE "list_check",
                     !.name = n, !.actor = u]]
    /\ started' = started + 1
    /\ UNCHANGED <<store, next_org_id, now>>

\* the role read but not checked
ListCheck_NoGuard(p) ==
    /\ req[p].pc = "list_check"
    /\ req' = [req EXCEPT ![p] = [req[p] EXCEPT !.pc = "list_fetch"]]
    /\ UNCHANGED <<store, next_org_id, started, now>>

\* if let Some(uid): get_user_role_in_org, bail if user_role.is_none()
ListCheck(p) ==
    /\ req[p].pc = "list_check"
    /\ \E r \in get_user_role_in_org(req[p].name, req[p].actor) :
          req' = [req EXCEPT ![p] =
                    IF r # NoRole
                    THEN [req[p] EXCEPT !.pc = "list_fetch"]
                    ELSE Finish(p, "Forbidden")]
    /\ UNCHANGED <<store, next_org_id, started, now>>

\* the rows of FROM organization_members om JOIN users u ... JOIN
\* organizations o ON om.organization_id = o.id WHERE o.name = $1
MembersNamed(name) ==
    {m \in organization_members :
        \E o \in OrgsNamed(name) : o.id = m.organization_id}

\* ORDER BY om.joined_at ASC: every arrangement of rows in which joined_at
\* does not decrease; rows of equal joined_at come in an order the query
\* does not fix
OrderedByJoinedAt(rows) ==
    {s \in [1..Cardinality(rows) -> rows] :
        /\ \A i \in DOMAIN s, j \in DOMAIN s : i # j => s[i] # s[j]
        /\ \A i \in DOMAIN s, j \in DOMAIN s :
              i < j => s[i].joined_at <= s[j].joined_at}

\* SELECT ... ORDER BY om.joined_at ASC, fetch_all: no row is an empty Vec,
\* not an error
ListFetch(p) ==
    /\ req[p].pc = "list_fetch"
    /\ \E s \in OrderedByJoinedAt(MembersNamed(req[p].name)) :
          req' = [req EXCEPT ![p] = [Finish(p, "Ok") EXCEPT !.listed = s]]
    /\ UNCHANGED <<store, next_org_id, started, now>>

\* ---- list_user_orgs_internal(pool, user_id)
StartListOrgs(p) ==
    /\ Free(p)
    /\ \E u \in Users :
          req' = [req EXCEPT ![p] = [Idle EXCEPT !.op = "list_orgs",
                     !.pc = "list_orgs_fetch", !.actor = u]]
    /\ started' = started + 1
    /\ UNCHANGED <<store, next_org_id, now>>

\* the join without WHERE om.user_id = $1
JoinedOrgs_AnyUser(user) ==
    {j \in organizations \X organization_members :
        j[1].id = j[2].organization_id}

\* the rows of FROM organizations o JOIN organization_members om
\* ON o.id = om.organization_id WHERE om.user_id = $1
JoinedOrgs(user) ==
    {j \in organizations \X organization_members :
        j[1].id = j[2].organization_id /\ j[2].user_id = user}

\* the place of a name in the order of text
NameOrder(name) == IF name = "acme" THEN 1 ELSE 2

\* ORDER BY o.name: every arrangement of the joined rows in which the
\* name does not decrease
OrderedByName(rows) ==
    {s \in [1..Cardinality(rows) -> rows] :
        /\ \A i \in DOMAIN s, j \in DOMAIN s : i # j => s[i] # s[j]
        /\ \A i \in DOMAIN s, j \in DOMAIN s :
              i < j => NameOrder(s[i][1].name) <= NameOrder(s[j][1].name)}

\* SELECT o.id, o.name, ... : the organization columns of each joined row
ListOrgsFetch(p) ==
    /\ req[p].pc = "list_orgs_fetch"
    /\ \E s \in OrderedByName(JoinedOrgs(req[p].actor)) :
          req' = [req EXCEPT ![p] =
                    [Finish(p, "Ok") EXCEPT
                        !.listed = [i \in DOMAIN s |-> s[i][1]]]]
    /\ UNCHANGED <<store, next_org_id, started, now>>

\* ---- a statement's await? fails: the handler returns the error; an open
\* transaction is dropped and rolls back
StoreFail(p) ==
    /\ req[p].pc \notin {"idle", "done"}
    /\ req' = [req EXCEPT ![p] = Finish(p, "StoreFailure")]
    /\ UNCHANGED <<store, next_org_id, started, now>>

\* ---- the database clock advances
Tick ==
    /\ now < MaxClock
    /\ now' = now + 1
    /\ UNCHANGED <<store, next_org_id, req, started>>

\* ------------------------------------------------------------ behaviour
\* the membership row create_org_internal writes for its caller, at the
\* current time
FounderRow(org_id, user) ==
    [organization_id |-> org_id, user_id |-> user, role |-> "owner",
     invited_by |-> NoUser, invited_at |-> InvitedAtDefault,
     joined_at |-> now]

\* The server starts on whatever the database holds.  Three stores, each
\* one the handlers themselves produce from the empty database:
\*   empty;
\*   after CreateOrganization("acme") by user 1;
\*   after that and AddMember("acme", user 2, Owner) by user 1.
\* the row of CreateOrganization("acme") with no metadata, at time 0
SeedOrg ==
    [id |-> 1, name |-> "acme", display_name |-> Null, description |-> Null,
     website_url |-> Null, avatar_url |-> Null,
     created_at |-> 0, updated_at |-> 0]

StoreEmpty ==
    /\ organizations = {}
    /\ organization_members = {}
    /\ next_org_id = 1

StoreOneOwner ==
    /\ organizations = {SeedOrg}
    /\ organization_members = {FounderRow(1, 1)}
    /\ next_org_id = 2

StoreTwoOwners ==
    /\ organizations = {SeedOrg}
    /\ organization_members =
          {FounderRow(1, 1),
           [organization_id |-> 1, user_id |-> 2, role |-> "owner",
            invited_by |-> 1, invited_at |-> InvitedAtDefault,
            joined_at |-> 0]}
    /\ next_org_id = 2

Init ==
    /\ now = 0
    /\ StoreEmpty \/ StoreOneOwner \/ StoreTwoOwners
    /\ req = [p \in Procs |-> Idle]
    /\ started = 0

Next ==
    \E p \in Procs :
        \/ StartCreate(p)
        \/ CreateCheck(p)
        \/ CreateInsertOrg(p)
        \/ CreateInsertOwner(p)
        \/ CreateCommit(p)
        \/ StartUpdate(p)
        \/ UpdateCheck(p)
        \/ UpdateExec(p)
        \/ StartDelete(p)
        \/ DeleteCheck(p)
        \/ DeleteExec(p)
        \/ StartAdd(p)
        \/ AddCheck(p)
        \/ AddOrg(p)
        \/ AddUser(p)
        \/ AddExisting(p)
        \/ AddInsert(p)
        \/ StartChange(p)
        \/ ChangeRole(p)
        \/ ChangeTarget(p)
        \/ ChangeOrg(p)
        \/ ChangeUpdate(p)
        \/ ChangeFetch(p)
        \/ StartRemove(p)
        \/ RemoveRole(p)
        \/ RemoveTarget(p)
        \/ RemoveOrg(p)
        \/ RemoveDelete(p)
        \/ StoreFail(p)

Spec == Init /\ [][Next]_vars

\* the same handlers on a database that starts empty
InitEmpty ==
    /\ now = 0
    /\ StoreEmpty
    /\ req = [p \in Procs |-> Idle]
    /\ started = 0

SpecFromEmpty == InitEmpty /\ [][Next]_vars

\* the handlers that write, and the listing of members beside them
NextList ==
    \/ Next
    \/ \E p \in Procs :
          \/ StartList(p)
          \/ ListCheck(p)
          \/ ListFetch(p)

SpecList == Init /\ [][NextList]_vars

\* An organization with one member of each role: the store after
\* CreateOrganization("acme") by user 3, AddMember("acme", user 1, Admin)
\* and AddMember("acme", user 2, Member) by user 3.  User 3, the Owner,
\* sends no further request; users 1 and 2 do.
StoreThreeRoles ==
    /\ organizations = {SeedOrg}
    /\ organization_members =
          {FounderRow(1, 3),
           [organization_id |-> 1, user_id |-> 1, role |-> "admin",
            invited_by |-> 3, invited_at |-> InvitedAtDefault,
            joined_at |-> 0],
           [organization_id |-> 1, user_id |-> 2, role |-> "member",
            invited_by |-> 3, invited_at |-> InvitedAtDefault,
            joined_at |-> 0]}
    /\ next_org_id = 2

InitRoles ==
    /\ now = 0
    /\ StoreEmpty \/ StoreThreeRoles
    /\ req = [p \in Procs |-> Idle]
    /\ started = 0

SpecRoles == InitRoles /\ [][Next]_vars

\* Two organizations.  "beta" is named by no request: its rows are there
\* for the handlers to leave alone.  User 2 is its Owner.
BetaOrg(id) ==
    [id |-> id, name |-> "beta", display_name |-> Null, description |-> Null,
     website_url |-> Null, avatar_url |-> Null,
     created_at |-> 0, updated_at |-> 0]

StoreOnlyBeta ==
    /\ organizations = {BetaOrg(1)}
    /\ organization_members = {FounderRow(1, 2)}
    /\ next_org_id = 2

StoreTwoOrgs ==
    /\ organizations = {SeedOrg, BetaOrg(2)}
    /\ organization_members =
          {FounderRow(1, 1),
           [organization_id |-> 1, user_id |-> 2, role |-> "member",
            invited_by |-> 1, invited_at |-> InvitedAtDefault,
            joined_at |-> 0],
           FounderRow(2, 2)}
    /\ next_org_id = 3

InitTwoOrgs ==
    /\ now = 0
    /\ StoreOnlyBeta \/ StoreTwoOrgs
    /\ req = [p \in Procs |-> Idle]
    /\ started = 0

SpecTwoOrgs == InitTwoOrgs /\ [][Next]_vars

\* the handlers that write, and the listing of a user's organizations
NextListOrgs ==
    \/ Next
    \/ \E p \in Procs :
          \/ StartListOrgs(p)
          \/ ListOrgsFetch(p)

SpecListOrgs == InitTwoOrgs /\ [][NextListOrgs]_vars

\* ListMembers on its own, on a store that no request changes.  Two stores:
\* the three roles with the Admin and the Member invited at different
\* times, and with both invited at the same time.
StoreJoinedApart ==
    /\ organizations = {SeedOrg}
    /\ organization_members =
          {FounderRow(1, 3),
           [organization_id |-> 1, user_id |-> 1, role |-> "admin",
            invited_by |-> 3, invited_at |-> InvitedAtDefault,
            joined_at |-> 1],
           [organization_id |-> 1, user_id |-> 2, role |-> "member",
            invited_by |-> 3, invited_at |-> InvitedAtDefault,
            joined_at |-> 2]}
    /\ next_org_id = 2

StoreJoinedTogether ==
    /\ organizations = {SeedOrg}
    /\ organization_members =
          {FounderRow(1, 3),
           [organization_id |-> 1, user_id |-> 1, role |-> "admin",
            invited_by |-> 3, invited_at |-> InvitedAtDefault,
            joined_at |-> 1],
           [organization_id |-> 1, user_id |-> 2, role |-> "member",
            invited_by |-> 3, invited_at |-> InvitedAtDefault,
            joined_at |-> 1]}
    /\ next_org_id = 2

InitOrder ==
    /\ now = 0
    /\ StoreOneOwner \/ StoreJoinedApart \/ StoreJoinedTogether
    /\ req = [p \in Procs |-> Idle]
    /\ started = 0

NextOrder ==
    \E p \in Procs :
        \/ StartList(p)
        \/ ListCheck(p)
        \/ ListFetch(p)
        \/ StoreFail(p)

SpecOrder == InitOrder /\ [][NextOrder]_vars

\* UpdateOrganization on its own, with every patch and a clock that runs.
\* The store is the one left by CreateOrganization("acme", display_name
\* "v1", description "v1", founder user 1) and AddMember("acme", user 2,
\* Member) by user 1, both at time 0.
StorePatch ==
    /\ organizations =
          {[SeedOrg EXCEPT !.display_name = "v1", !.description = "v1"]}
    /\ organization_members =
          {FounderRow(1, 1),
           [organization_id |-> 1, user_id |-> 2, role |-> "member",
            invited_by |-> 1, invited_at |-> InvitedAtDefault,
            joined_at |-> 0]}
    /\ next_org_id = 2

InitPatch ==
    /\ now = 0
    /\ StorePatch
    /\ req = [p \in Procs |-> Idle]
    /\ started = 0

NextPatch ==
    \/ \E p \in Procs :
          \/ StartUpdatePatch(p)
          \/ UpdateCheck(p)
          \/ UpdateExec(p)
          \/ StoreFail(p)
    \/ Tick

SpecPatch == InitPatch /\ [][NextPatch]_vars

\* ================================================================ claims
OwnerRows(org_id) == {m \in MembersOf(org_id) : m.role = "owner"}

Done(p, op, res) ==
    req[p].pc = "done" /\ req[p].op = op /\ req[p].result = res

\* the rows of table after whose id no row of table before has
NewOrgs(before, after) ==
    {o \in after : \A b \in before : b.id # o.id}

\* the rows of table after for whose (organization, user) table before has
\* no row
NewMembers(before, after) ==
    {m \in after : \A b \in before :
        b.organization_id # m.organization_id \/ b.user_id # m.user_id}

\* C1: every organization that exists has at least one membership whose role
\* is owner, in every reachable state.
C1_EveryOrgHasOwner ==
    \A o \in organizations : OwnerRows(o.id) # {}

\* C2: CreateOrganization is atomic.  An organization row becomes visible
\* only in the step that also makes its founder's owner membership visible,
\* a founder's membership becomes visible only with its organization, and a
\* create that ends in any failure leaves both tables as they were.
C2_CreateAtomic ==
    [][ /\ organizations' # organizations =>
           \A o \in NewOrgs(organizations, organizations') :
              \E p \in Procs :
                  /\ req[p].pc = "create_commit"
                  /\ req[p].org_id = o.id
                  /\ FounderRow(o.id, req[p].actor) \in organization_members'
        /\ organization_members' # organization_members =>
           \A m \in NewMembers(organization_members, organization_members') :
              m.invited_by = NoUser =>
                  \E o \in NewOrgs(organizations, organizations') :
                      o.id = m.organization_id
        /\ \A p \in Procs :
              (/\ req[p].op = "create"
               /\ req[p].pc # "done"
               /\ req'[p].pc = "done"
               /\ req'[p].result # "Ok") => store' = store
      ]_vars

\* C2 witness: the only request so far was a create that failed after its
\* organization INSERT (the serial is consumed), and no row of it is visible.
C2_Witness ==
    /\ started = 1
    /\ next_org_id = 2
    /\ \E p \in Procs : Done(p, "create", "StoreFailure")
    /\ organizations = {}
    /\ organization_members = {}

\* C3: in the state a successful CreateOrganization(name, metadata, founder)
\* commits into, the organization has exactly one membership, the founder's,
\* with role owner and no inviter, and GetOrganization(name) returns the
\* organization with the metadata of the request.
C3_FoundingMembership ==
    [][ \A p \in Procs :
          (req[p].pc = "create_commit" /\ req'[p].result = "Ok") =>
              /\ \E o \in organizations' :
                    /\ {n \in organizations' : n.name = req[p].name} = {o}
                    /\ o.id = req[p].org_id
                    /\ o.display_name = req[p].display_name
                    /\ o.description = req[p].description
                    /\ o.website_url = req[p].website_url
                    /\ o.avatar_url = Null
              /\ MembersIn(organization_members', req[p].org_id) =
                    {FounderRow(req[p].org_id, req[p].actor)}
      ]_vars

\* C3 witness: a create has committed and its organization holds exactly
\* the founder's membership.
C3_Witness ==
    \E p \in Procs :
        /\ Done(p, "create", "Ok")
        /\ \E o \in OrgsNamed(req[p].name) :
              /\ o.display_name = "d1"
              /\ MembersOf(o.id) = {FounderRow(o.id, req[p].actor)}

\* C4: a CreateOrganization whose existence check finds the name taken ends
\* there with Conflict, and both tables are as they were.
C4_DuplicateNameConflict ==
    [][ \A p \in Procs :
          (/\ req[p].pc = "create_check"
           /\ OrgsNamed(req[p].name) # {}
           /\ req'[p] # req[p]
           /\ req'[p].result # "StoreFailure") =>
              /\ req'[p].pc = "done"
              /\ req'[p].result = "Conflict"
              /\ store' = store
      ]_vars

\* C4 witness: a create of a name that exists has ended with Conflict.
C4_Witness ==
    \E p \in Procs :
        /\ Done(p, "create", "Conflict")
        /\ OrgsNamed(req[p].name) # {}

\* C5: no two rows of organizations have the same name, in every reachable
\* state, whatever the interleaving of the create transactions.
C5_NamesUnique ==
    \A a \in organizations, b \in organizations :
        a.name = b.name => a = b

\* C5 witness: of two creates of one name, one committed and the other was
\* rejected by the store at its INSERT.
C5_Witness ==
    \E p \in Procs, q \in Procs :
        /\ Done(p, "create", "Ok")
        /\ Done(q, "create", "ConstraintViolation")
        /\ req[p].name = req[q].name
        /\ Cardinality(OrgsNamed(req[p].name)) = 1

\* C6: no two rows of organization_members have the same organization and
\* user, in every reachable state, whatever the interleaving of the invites.
C6_MembershipPairsUnique ==
    \A a \in organization_members, b \in organization_members :
        (a.organization_id = b.organization_id /\ a.user_id = b.user_id)
            => a = b

\* C6 witness: of two invites of one user into one organization, one
\* inserted its row and the other was rejected by the store at its INSERT.
C6_Witness ==
    \E p \in Procs, q \in Procs :
        /\ Done(p, "add", "Ok")
        /\ Done(q, "add", "ConstraintViolation")
        /\ req[p].name = req[q].name
        /\ req[p].target = req[q].target
        /\ \E o \in OrgsNamed(req[p].name) :
              Cardinality(MemberRows(o.id, req[p].target)) = 1

\* the roles the store holds now for the acting user of request p
ActorRolesNow(p) == get_user_role_in_org(req[p].name, req[p].actor)

\* the roles the store holds now for the target of request p
TargetRolesNow(p) == get_user_role_in_org(req[p].name, req[p].target)

\* C7: whenever a mutation writes, the roles the store holds at that moment
\* still pass the policy check that authorized the write.
C7_NoStalePermission ==
    [][ \A p \in Procs :
          /\ (req[p].pc = "update_exec" /\ req'[p].result = "Ok") =>
                \E r \in ActorRolesNow(p) : can_manage_organization(r)
          /\ (req[p].pc = "delete_exec" /\ req'[p].result = "Ok") =>
                \E r \in ActorRolesNow(p) : can_delete_organization(r)
          /\ (req[p].pc = "add_insert" /\ req'[p].result = "Ok") =>
                \E r \in ActorRolesNow(p) : can_manage_members(r)
          /\ (/\ req[p].pc = "change_update"
              /\ req'[p].pc = "change_fetch"
              /\ MemberRows(req[p].org_id, req[p].target) # {}) =>
                \E a \in ActorRolesNow(p), t \in TargetRolesNow(p) :
                    ChangeAllowed(a, t, req[p].role)
          /\ (req[p].pc = "remove_delete" /\ req'[p].result = "Ok") =>
                \E a \in ActorRolesNow(p), t \in TargetRolesNow(p) :
                    RemoveAllowed(req[p].actor, req[p].target, a, t)
      ]_vars

\* request p has removed its target or given it a role below owner
TookOwnerAway(p) ==
    \/ Done(p, "remove", "Ok")
    \/ Done(p, "change", "Ok") /\ req[p].role # Owner

\* C8: (from the store with two owners) when two requests have each removed
\* or demoted the other's acting user and both succeeded, the organization
\* still has an owner.
C8_MutualOwnerRemoval ==
    \A p \in Procs, q \in Procs :
        (/\ p # q
         /\ TookOwnerAway(p)
         /\ TookOwnerAway(q)
         /\ req[p].name = req[q].name
         /\ req[p].actor # req[q].actor
         /\ req[p].target = req[q].actor
         /\ req[q].target = req[p].actor) =>
            \A o \in OrgsNamed(req[p].name) : OwnerRows(o.id) # {}

\* C9: the DELETE of a self-removal whose target is the only owner of the
\* organization fails and deletes nothing.
C9_LastOwnerStays ==
    [][ \A p \in Procs :
          (/\ req[p].pc = "remove_delete"
           /\ req'[p] # req[p]
           /\ req[p].actor = req[p].target
           /\ OwnerRows(req[p].org_id) # {}
           /\ OwnerRows(req[p].org_id) =
                 MemberRows(req[p].org_id, req[p].target)) =>
              /\ req'[p].result # "Ok"
              /\ organization_members' = organization_members
      ]_vars

\* C10: a RemoveMember whose acting user is its target never ends with
\* Forbidden, whatever the roles read; and when its DELETE runs while the
\* membership exists it ends with Ok, deletes exactly the rows of that
\* (organization, user) and leaves the organizations alone.
C10_SelfRemoval ==
    [][ \A p \in Procs :
          (/\ req[p].op = "remove"
           /\ req[p].actor = req[p].target
           /\ req'[p] # req[p]
           /\ req'[p].op = "remove") =>
              /\ req'[p].result # "Forbidden"
              /\ (/\ req[p].pc = "remove_delete"
                  /\ req'[p].result # "StoreFailure"
                  /\ MemberRows(req[p].org_id, req[p].target) # {}) =>
                    /\ req'[p].result = "Ok"
                    /\ organizations' = organizations
                    /\ organization_members' = organization_members \
                          MemberRows(req[p].org_id, req[p].target)
      ]_vars

\* C10 witness: a user invited as Member has removed themself and the
\* organization no longer lists them.
C10_Witness ==
    \E p \in Procs, q \in Procs :
        /\ Done(p, "remove", "Ok")
        /\ req[p].actor = req[p].target
        /\ Done(q, "add", "Ok")
        /\ req[q].target = req[p].actor
        /\ req[q].role = Member
        /\ \E o \in OrgsNamed(req[p].name) :
              /\ MemberRows(o.id, req[p].actor) = {}
              /\ MembersOf(o.id) # {}

\* C11: a membership is created with, or changed to, role R only by a
\* request whose acting user held a role ranking at least R when the request
\* read it; so no request of an Admin or a Member leaves a user an owner.
C11_RoleWithinActorsRank ==
    [][ \A p \in Procs :
          /\ (req[p].pc = "add_insert" /\ req'[p].result = "Ok") =>
                Rank(req[p].role) <= Rank(req[p].actor_role)
          /\ (/\ req[p].pc = "change_update"
              /\ req'[p].pc = "change_fetch"
              /\ MemberRows(req[p].org_id, req[p].target) # {}) =>
                Rank(req[p].role) <= Rank(req[p].actor_role)
      ]_vars

C13_RemoveOtherGuard ==
    [][ \A p \in Procs :
          /\ (/\ req[p].pc = "remove_target"
              /\ req[p].actor # req[p].target
              /\ req'[p] # req[p]
              /\ req'[p].result # "StoreFailure") =>
                IF \E t \in TargetRolesNow(p) :
                      \/ req[p].actor_role = Owner /\ t \in Roles
                      \/ req[p].actor_role = Admin /\ t = Member
                THEN req'[p].pc = "remove_org"
                ELSE /\ req'[p].pc = "done"
                     /\ req'[p].result = "Forbidden"
                     /\ store' = store
          /\ (/\ req[p].op = "remove"
              /\ req'[p] # req[p]
              /\ req[p].pc \notin {"done", "remove_delete"}) =>
                store' = store
      ]_vars

\* C13 witness: the only request so far is an Admin's removal of a Member,
\* it has succeeded and the Member's row is gone.
C13_Witness ==
    \E p \in Procs :
        /\ started = 1
        /\ Done(p, "remove", "Ok")
        /\ req[p].actor # req[p].target
        /\ \E o \in OrgsNamed(req[p].name) :
              /\ MemberRows(o.id, req[p].target) = {}
              /\ \E m \in MemberRows(o.id, req[p].actor) : m.role = "admin"

\* C14: when ChangeMemberRole has read both roles, it goes on to its UPDATE
\* only if both users hold a role, the acting role may assign the new role
\* (Owner: any; Admin: Member or Admin) and may touch the target (Owner:
\* anyone; Admin: a Member); otherwise it ends with Forbidden and both
\* tables are as they were.  No other step of the request than its UPDATE
\* writes, and the UPDATE leaves the target with exactly the requested role
\* and every other row as it was.
C14_ChangeRoleGuard ==
    [][ \A p \in Procs :
          /\ (/\ req[p].pc = "change_target"
              /\ req'[p] # req[p]
              /\ req'[p].result # "StoreFailure") =>
                IF /\ \/ req[p].actor_role = Owner
                      \/ /\ req[p].actor_role = Admin
                         /\ req[p].role \in {Member, Admin}
                   /\ \E t \in TargetRolesNow(p) :
                         \/ req[p].actor_role = Owner /\ t \in Roles
                         \/ req[p].actor_role = Admin /\ t = Member
                THEN req'[p].pc = "change_org"
                ELSE /\ req'[p].pc = "done"
                     /\ req'[p].result = "Forbidden"
                     /\ store' = store
          /\ (/\ req[p].op = "change"
              /\ req'[p] # req[p]
              /\ req[p].pc \notin {"done", "change_update"}) =>
                store' = store
          /\ (/\ req[p].pc = "change_update"
              /\ req'[p].pc = "change_fetch") =>
                /\ organizations' = organizations
                /\ \A m \in organization_members' :
                      IF /\ m.organization_id = req[p].org_id
                         /\ m.user_id = req[p].target
                      THEN RoleFromText(m.role) = req[p].role
                      ELSE m \in organization_members
                /\ Cardinality(organization_members') =
                      Cardinality(organization_members)
      ]_vars

\* C14 witness: the only request so far is an Admin's promotion of a Member
\* to Admin; it has succeeded and the target's row says admin.
C14_Witness ==
    \E p \in Procs :
        /\ started = 1
        /\ Done(p, "change", "Ok")
        /\ req[p].actor # req[p].target
        /\ req[p].role = Admin
        /\ \E o \in OrgsNamed(req[p].name) :
              /\ \E m \in MemberRows(o.id, req[p].target) : m.role = "admin"
              /\ \E m \in MemberRows(o.id, req[p].actor) : m.role = "admin"

\* C15: when AddMember has read the inviter's role, it goes on only if that
\* role is Owner or Admin; an inviter who is a Member or holds no role ends
\* with Forbidden and both tables are as they were.  No other step of the
\* request than its INSERT writes.
C15_InviterGuard ==
    [][ \A p \in Procs :
          /\ (/\ req[p].pc = "add_check"
              /\ req'[p] # req[p]
              /\ req'[p].result # "StoreFailure") =>
                IF \E r \in ActorRolesNow(p) : r \in {Owner, Admin}
                THEN req'[p].pc = "add_org"
                ELSE /\ req'[p].pc = "done"
                     /\ req'[p].result = "Forbidden"
                     /\ store' = store
          /\ (/\ req[p].op = "add"
              /\ req'[p] # req[p]
              /\ req[p].pc \notin {"done", "add_insert"}) =>
                store' = store
      ]_vars

\* C15 witness: the only request so far is an invite by a Member; it has
\* ended with Forbidden.
C15_Witness ==
    \E p \in Procs :
        /\ started = 1
        /\ Done(p, "add", "Forbidden")
        /\ \E o \in OrgsNamed(req[p].name) :
              \E m \in MemberRows(o.id, req[p].actor) : m.role = "member"

\* C16: an authorized AddMember ends with NotFound when the target user
\* does not exist and with Conflict when the target already has a row, both
\* tables as they were; and when its INSERT succeeds exactly one membership
\* is added, of the target in the organization, with the requested role,
\* invited_by the inviter and invited_at set.
C16_AddOutcomes ==
    [][ \A p \in Procs :
          /\ (/\ req[p].pc = "add_user"
              /\ req'[p] # req[p]
              /\ req'[p].result # "StoreFailure"
              /\ req[p].target \notin Users) =>
                /\ req'[p].pc = "done"
                /\ req'[p].result = "NotFound"
                /\ store' = store
          /\ (/\ req[p].pc = "add_existing"
              /\ req'[p] # req[p]
              /\ req'[p].result # "StoreFailure"
              /\ MemberRows(req[p].org_id, req[p].target) # {}) =>
                /\ req'[p].pc = "done"
                /\ req'[p].result = "Conflict"
                /\ store' = store
          /\ (req[p].pc = "add_insert" /\ req'[p].result = "Ok") =>
                /\ organizations' = organizations
                /\ \E m \in organization_members' :
                      /\ m \notin organization_members
                      /\ organization_members' =
                            organization_members \cup {m}
                      /\ m.organization_id = req[p].org_id
                      /\ m.user_id = req[p].target
                      /\ RoleFromText(m.role) = req[p].role
                      /\ m.invited_by = req[p].actor
                      /\ m.invited_at # Null
      ]_vars

\* C17: DeleteOrganization goes on to its DELETE only when the role it read
\* for the acting user is Owner, and otherwise ends with Forbidden, both
\* tables as they were; a DELETE that succeeds leaves no organization of
\* that name and no membership of it; and a ListMembers that ends after a
\* successful delete of its name, while no organization has that name, ends
\* with NotFound.
C17_DeleteThenListNotFound ==
    [][ \A p \in Procs :
          /\ (/\ req[p].pc = "delete_check"
              /\ req'[p] # req[p]
              /\ req'[p].result # "StoreFailure") =>
                IF \E r \in ActorRolesNow(p) : r = Owner
                THEN req'[p].pc = "delete_exec"
                ELSE /\ req'[p].pc = "done"
                     /\ req'[p].result = "Forbidden"
                     /\ store' = store
          /\ (req[p].pc = "delete_exec" /\ req'[p].result = "Ok") =>
                /\ \A o \in organizations' : o.name # req[p].name
                /\ \A m \in organization_members' :
                      \A o \in OrgsNamed(req[p].name) :
                          m.organization_id # o.id
          /\ (/\ req[p].op = "list"
              /\ req[p].pc # "done"
              /\ req'[p].pc = "done"
              /\ req'[p].result # "StoreFailure"
              /\ OrgsNamed(req[p].name) = {}
              /\ \E q \in Procs :
                    Done(q, "delete", "Ok") /\ req[q].name = req[p].name) =>
                req'[p].result = "NotFound"
      ]_vars

\* C18: every membership refers to an organization that exists, in every
\* reachable state, whatever the interleaving of deletes with invites, role
\* changes and removals.
C18_NoOrphanMembership ==
    \A m \in organization_members :
        \E o \in organizations : o.id = m.organization_id

\* C18 witness: an invite had resolved the organization's id when a delete
\* of the organization succeeded; the invite's INSERT was then rejected by
\* the store and no membership is left.
C18_Witness ==
    \E p \in Procs, q \in Procs :
        /\ started = 2
        /\ Done(p, "add", "ConstraintViolation")
        /\ Done(q, "delete", "Ok")
        /\ req[p].name = req[q].name
        /\ OrgsNamed(req[p].name) = {}
        /\ organization_members = {}

\* C19: when UpdateOrganization has read the acting user's role, it goes on
\* to its UPDATE only if that role is Owner or Admin; a Member or a user
\* with no role ends with Forbidden and the organization row, metadata and
\* updated_at, is as it was.  No other step of the request than its UPDATE
\* writes.
C19_UpdateGuard ==
    [][ \A p \in Procs :
          /\ (/\ req[p].pc = "update_check"
              /\ req'[p] # req[p]
              /\ req'[p].result # "StoreFailure") =>
                IF \E r \in ActorRolesNow(p) : r \in {Owner, Admin}
                THEN req'[p].pc = "update_exec"
                ELSE /\ req'[p].pc = "done"
                     /\ req'[p].result = "Forbidden"
                     /\ store' = store
          /\ (/\ req[p].op = "update"
              /\ req'[p] # req[p]
              /\ req[p].pc \notin {"done", "update_exec"}) =>
                store' = store
      ]_vars

\* C19 witness: the only request so far is a Member's update with a new
\* display name; it has ended with Forbidden and the row has its old one.
C19_Witness ==
    \E p \in Procs :
        /\ started = 1
        /\ Done(p, "update", "Forbidden")
        /\ req[p].display_name # Null
        /\ \E o \in OrgsNamed(req[p].name) :
              /\ o.display_name # req[p].display_name
              /\ \E m \in MemberRows(o.id, req[p].actor) : m.role = "member"

\* C20: the UPDATE of a successful UpdateOrganization gives each of
\* display_name, description, website_url and avatar_url the value of the
\* patch when the patch has one and leaves it as it was when the patch has
\* none; it keeps id, name and created_at, adds and removes no row, leaves
\* the memberships alone, and sets updated_at to the current time, which is
\* never earlier than the value it replaces.
C20_PatchSemantics ==
    [][ \A p \in Procs :
          (req[p].pc = "update_exec" /\ req'[p].result = "Ok") =>
              /\ organization_members' = organization_members
              /\ \A n \in organizations' :
                    \E o \in organizations : o.id = n.id
              /\ \A o \in organizations :
                    IF o.name # req[p].name
                    THEN o \in organizations'
                    ELSE \E n \in organizations' :
                        /\ n.id = o.id
                        /\ n.name = o.name
                        /\ n.created_at = o.created_at
                        /\ n.display_name =
                              IF req[p].display_name = Null
                              THEN o.display_name ELSE req[p].display_name
                        /\ n.description =
                              IF req[p].description = Null
                              THEN o.description ELSE req[p].description
                        /\ n.website_url =
                              IF req[p].website_url = Null
                              THEN o.website_url ELSE req[p].website_url
                        /\ n.avatar_url =
                              IF req[p].avatar_url = Null
                              THEN o.avatar_url ELSE req[p].avatar_url
                        /\ n.updated_at = now
                        /\ n.updated_at >= o.updated_at
      ]_vars

\* C20 witness: the only request so far is an update that supplied a display
\* name and an avatar and nothing else, after the clock had moved; the row
\* has the two new values, its old description, its old (absent) website
\* and a later updated_at than created_at.
C20_Witness ==
    \E p \in Procs :
        /\ started = 1
        /\ Done(p, "update", "Ok")
        /\ req[p].display_name = "v2"
        /\ req[p].description = Null
        /\ req[p].website_url = Null
        /\ req[p].avatar_url = "v2"
        /\ \E o \in OrgsNamed(req[p].name) :
              /\ o.display_name = "v2"
              /\ o.description = "v1"
              /\ o.website_url = Null
              /\ o.avatar_url = "v2"
              /\ o.updated_at > o.created_at

\* C21: (for the first request on a store the server started on) a request
\* that has returned a failure, whichever it is and at whichever of its
\* statements, has left the two tables as it found them.
C21_NoPartialSuccess ==
    (/\ started = 1
     /\ \E p \in Procs : req[p].pc = "done" /\ req[p].result # "Ok") =>
        \/ organizations = {} /\ organization_members = {}
        \/ /\ organizations = {SeedOrg}
           /\ organization_members = {FounderRow(1, 1)}
        \/ /\ organizations = {SeedOrg}
           /\ organization_members =
                 {FounderRow(1, 1),
                  [organization_id |-> 1, user_id |-> 2, role |-> "owner",
                   invited_by |-> 1, invited_at |-> InvitedAtDefault,
                   joined_at |-> 0]}

\* C22: a ListMembers with an acting identity goes on to its SELECT only if
\* that identity holds some role in the organization and otherwise ends with
\* Forbidden; one without an identity is never Forbidden; the SELECT ends
\* with Ok and returns the memberships of the organization of that name,
\* each once; and no step of a listing writes.
C22_ListGuard ==
    [][ \A p \in Procs :
          /\ (/\ req[p].pc = "list_check"
              /\ req'[p] # req[p]
              /\ req'[p].result # "StoreFailure") =>
                IF \E r \in ActorRolesNow(p) : r \in Roles
                THEN req'[p].pc = "list_fetch"
                ELSE req'[p].pc = "done" /\ req'[p].result = "Forbidden"
          /\ (/\ req[p].pc = "list_fetch"
              /\ req'[p] # req[p]
              /\ req'[p].result # "StoreFailure") =>
                /\ req'[p].result = "Ok"
                /\ {req'[p].listed[i] : i \in DOMAIN req'[p].listed} =
                      {m \in organization_members :
                          \E o \in organizations :
                              /\ o.name = req[p].name
                              /\ o.id = m.organization_id}
                /\ Len(req'[p].listed) =
                      Cardinality({req'[p].listed[i] :
                                      i \in DOMAIN req'[p].listed})
          /\ (/\ req[p].op = "list"
              /\ req[p].actor = NoUser
              /\ req'[p] # req[p]
              /\ req'[p].op = "list") =>
                req'[p].result # "Forbidden"
          /\ (req[p].op = "list" /\ req[p].pc # "done"
              /\ req'[p] # req[p]) => store' = store
      ]_vars

\* C22 witness: a listing without identity has returned members, and a
\* listing by a user with no role in the organization, which exists, has
\* ended with Forbidden.
C22_Witness ==
    \E p \in Procs, q \in Procs :
        /\ Done(p, "list", "Ok")
        /\ req[p].actor = NoUser
        /\ Len(req[p].listed) > 0
        /\ Done(q, "list", "Forbidden")
        /\ \E o \in OrgsNamed(req[q].name) :
              /\ MemberRows(o.id, req[q].actor) = {}
              /\ MembersOf(o.id) # {}

\* C23: (on a store that no request changes) every ListMembers that has
\* succeeded returned exactly the memberships of the organization, each
\* once, by joined_at ascending; and any two that have succeeded for one
\* name returned the same sequence, rows of equal joined_at included.
C23_ListingDeterministic ==
    \A p \in Procs :
        Done(p, "list", "Ok") =>
            /\ {req[p].listed[i] : i \in DOMAIN req[p].listed} =
                  {m \in organization_members :
                      \E o \in organizations :
                          /\ o.name = req[p].name
                          /\ o.id = m.organization_id}
            /\ \A i \in DOMAIN req[p].listed, j \in DOMAIN req[p].listed :
                  i < j =>
                      /\ req[p].listed[i] # req[p].listed[j]
                      /\ req[p].listed[i].joined_at <=
                            req[p].listed[j].joined_at
            /\ \A q \in Procs :
                  (Done(q, "list", "Ok") /\ req[q].name = req[p].name) =>
                      req[q].listed = req[p].listed

\* C24: a listing of a user's organizations that succeeds returns the
\* organizations in which the user holds a membership at that moment, all
\* of them and no other, each once, by name ascending, whatever creations,
\* invitations, removals and deletions came before.
C24_ListUserOrgs ==
    [][\A p \in Procs :
          (/\ req[p].pc = "list_orgs_fetch"
           /\ req'[p].pc = "done"
           /\ req'[p].result = "Ok") =>
              LET l == req'[p].listed IN
              /\ {l[i] : i \in DOMAIN l} =
                    {o \in organizations :
                        \E m \in organization_members :
                            /\ m.organization_id = o.id
                            /\ m.user_id = req[p].actor}
              /\ \A i \in DOMAIN l, j \in DOMAIN l :
                    i < j => /\ l[i] # l[j]
                             /\ NameOrder(l[i].name) < NameOrder(l[j].name)
    ]_vars

\* a user has created "acme" beside "beta" and a listing returned both
C24_Witness ==
    \E p \in Procs, q \in Procs :
        /\ Done(p, "list_orgs", "Ok")
        /\ Len(req[p].listed) = 2
        /\ req[p].listed[1].name = "acme"
        /\ Done(q, "create", "Ok")
        /\ req[q].actor = req[p].actor

\* C25: every request that has failed carries the status of its kind of
\* failure: 404 for NotFound, 400 or 403 for Forbidden, 409 for Conflict,
\* 500 for a store failure.
C25_StatusByKind ==
    \A p \in Procs :
        req[p].pc = "done" =>
            /\ req[p].result = "NotFound" => req[p].status = 404
            /\ req[p].result = "Forbidden" => req[p].status \in {400, 403}
            /\ req[p].result = "Conflict" => req[p].status = 409
            /\ req[p].result = "StoreFailure" => req[p].status = 500

\* C26: no request writes, for its own acting user, a role that ranks above
\* the role it read for that user: neither the INSERT of an AddMember
\* whose target is the acting user nor the UPDATE of a ChangeMemberRole
\* whose target is the acting user.
C26_NoSelfEscalation ==
    [][ \A p \in Procs :
          (/\ req[p].target = req[p].actor
           /\ \/ req[p].pc = "add_insert" /\ req'[p].result = "Ok"
              \/ /\ req[p].pc = "change_update"
                 /\ req'[p].pc = "change_fetch"
                 /\ MemberRows(req[p].org_id, req[p].target) # {}) =>
              \A m \in organization_members' :
                  (m.user_id = req[p].actor /\ m.organization_id = req[p].org_id)
                      => Rank(RoleFromText(m.role)) <= Rank(req[p].actor_role)
      ]_vars

\* C27: a request whose acting user holds no membership in the named
\* organization writes nothing and fails.  UpdateOrganization,
\* DeleteOrganization and AddMember end at their check when the acting
\* user has no row; ChangeMemberRole and RemoveMember of another user end
\* at their test when the role read for the acting user is none; and the
\* DELETE of a self-targeted RemoveMember, when the acting user has no
\* row, deletes nothing and ends with NotFound.
C27_NonMemberChangesNothing ==
    [][ \A p \in Procs :
          req'[p] # req[p] =>
            /\ (/\ req[p].pc \in {"update_check", "delete_check", "add_check"}
                /\ RoleRows(req[p].name, req[p].actor) = {}) =>
                  /\ req'[p].pc = "done"
                  /\ req'[p].result \in {"Forbidden", "StoreFailure"}
                  /\ UNCHANGED store
            /\ (/\ req[p].pc \in {"change_target", "remove_target"}
                /\ req[p].actor_role = NoRole
                /\ req[p].op = "remove" => req[p].actor # req[p].target) =>
                  /\ req'[p].pc = "done"
                  /\ req'[p].result \in {"Forbidden", "StoreFailure"}
                  /\ UNCHANGED store
            /\ (/\ req[p].pc = "remove_delete"
                /\ req[p].actor = req[p].target
                /\ MemberRows(req[p].org_id, req[p].actor) = {}) =>
                  /\ req'[p].pc = "done"
                  /\ req'[p].result \in {"NotFound", "StoreFailure"}
                  /\ UNCHANGED store
      ]_vars

\* a user outside "acme" has tried to delete it and to leave it: the first
\* ended with Forbidden, the second with NotFound, and "acme" is there
C27_Witness ==
    \E p \in Procs, q \in Procs :
        /\ Done(p, "remove", "NotFound")
        /\ req[p].actor = req[p].target
        /\ Done(q, "delete", "Forbidden")
        /\ req[q].actor = req[p].actor
        /\ OrgsNamed(req[p].name) # {}
        /\ RoleRows(req[p].name, req[p].actor) = {}

\* the roles the user holds in the organization of that name, read from
\* the tables directly
RolesHeldIn(name, user) ==
    {RoleFromText(m.role) :
        m \in {r \in organization_members :
                 /\ r.user_id = user
                 /\ \E o \in organizations :
                       o.name = name /\ o.id = r.organization_id}}

\* C28: every step of a request on one organization leaves every
\* organization of another name, its row and its memberships, as they
\* were, and adds none; and the role a request acts on is the acting
\* user's role in the organization it names: the role it records is one
\* held there (none if no row is there), UpdateOrganization passes its
\* check only for an Owner or Admin there and DeleteOrganization only for
\* an Owner there, whatever the acting user holds elsewhere.
C28_OrganizationsIsolated ==
    [][ \A p \in Procs :
          (req'[p] # req[p] /\ req[p].pc \notin {"idle", "done"}) =>
            /\ \A o \in organizations \cup organizations' :
                  o.name # req[p].name =>
                      /\ o \in organizations
                      /\ o \in organizations'
                      /\ MembersIn(organization_members', o.id) =
                            MembersIn(organization_members, o.id)
            /\ (/\ req[p].pc \in {"add_check", "change_role", "remove_role"}
                /\ req'[p].actor_role # NoRole) =>
                  req'[p].actor_role \in RolesHeldIn(req[p].name, req[p].actor)
            /\ (req[p].pc = "update_check" /\ req'[p].pc = "update_exec") =>
                  RolesHeldIn(req[p].name, req[p].actor) \cap {Owner, Admin}
                      # {}
            /\ (req[p].pc = "delete_check" /\ req'[p].pc = "delete_exec") =>
                  Owner \in RolesHeldIn(req[p].name, req[p].actor)
      ]_vars

\* the Owner of "beta", who is not an Owner of "acme", was refused the
\* deletion of "acme"; its Owner then deleted it; "beta" has its Owner
C28_Witness ==
    \E p \in Procs, q \in Procs :
        /\ Done(p, "delete", "Forbidden")
        /\ Owner \in RolesHeldIn("beta", req[p].actor)
        /\ Done(q, "delete", "Ok")
        /\ req[q].name = req[p].name
        /\ req[p].name # "beta"

\* C29: the UPDATE of a ChangeMemberRole leaves the organizations and the
\* set of memberships' (organization, user) pairs as they were, leaves
\* every membership but the target's as it was, and changes of the
\* target's membership the role alone, to the role asked for (joined_at,
\* invited_by and invited_at stay); the DELETE of a RemoveMember that
\* succeeds removes the target's membership, one row, and nothing else.
C29_OnlyTheTargetRow ==
    [][ \A p \in Procs :
          /\ (req[p].pc = "change_update" /\ req'[p].pc = "change_fetch") =>
                /\ organizations' = organizations
                /\ {<<m.organization_id, m.user_id>> :
                        m \in organization_members'} =
                   {<<m.organization_id, m.user_id>> :
                        m \in organization_members}
                /\ Cardinality(organization_members') =
                      Cardinality(organization_members)
                /\ \A m \in organization_members :
                      IF /\ m.organization_id = req[p].org_id
                         /\ m.user_id = req[p].target
                      THEN [m EXCEPT !.role = RoleToText(req[p].role)]
                               \in organization_members'
                      ELSE m \in organization_members'
          /\ (/\ req[p].pc = "remove_delete"
              /\ req'[p].pc = "done"
              /\ req'[p].result = "Ok") =>
                /\ organizations' = organizations
                /\ organization_members' \subseteq organization_members
                /\ Cardinality(organization_members \ organization_members')
                      = 1
                /\ \A m \in organization_members \ organization_members' :
                      /\ m.organization_id = req[p].org_id
                      /\ m.user_id = req[p].target
      ]_vars

\* the Admin has made the Member an Admin and has then left: the Owner's
\* row is as it was, and the promoted row has its joined_at and invited_by
C29_Witness ==
    \E p \in Procs, q \in Procs :
        /\ Done(p, "change", "Ok")
        /\ req[p].actor = 1 /\ req[p].target = 2 /\ req[p].role = Admin
        /\ Done(q, "remove", "Ok")
        /\ req[q].target = 1
        /\ organization_members =
              {FounderRow(1, 3),
               [organization_id |-> 1, user_id |-> 2, role |-> "admin",
                invited_by |-> 3, invited_at |-> InvitedAtDefault,
                joined_at |-> 0]}

====
